---- MODULE Spec2Model ----
(***************************************************************************)
(* Model of the remote command listener of qirvo-echo-cli                  *)
(* (src/src/remote-command-handler.ts, src/src/echo-command-handler.ts).   *)
(*                                                                         *)
(* One RemoteCommandHandler object on the single-threaded event loop.      *)
(* Every action is one run-to-completion stretch of application code: from *)
(* a call or a callback (timer fired, HTTP reply, child process settled)   *)
(* up to the next await.  Requests in flight and callbacks waiting on an   *)
(* await are part of the state.                                           *)
(*                                                                         *)
(* Texts (JavaScript strings) are sequences of atoms: a one-character      *)
(* string is one character, a longer string a fixed literal of the source. *)
(* A nullable value is a set with at most one element.                     *)
(***************************************************************************)
EXTENDS Integers, Sequences, FiniteSets, TLC

\* ------------------------------------------------------------------ bounds
MaxStarts == 2      \* calls of start() on one listener (SpecLifecycle)
MaxStops == 2       \* calls of stop() on one listener (SpecLifecycle)
MaxTicks == 2       \* firings of poll timers
MaxBeats == 1       \* firings of heartbeat timers
MaxBatch == 2       \* commands in one pending-commands reply
MaxClock == 0       \* readings of Date.now() range over 0..MaxClock
MaxSignals == 2     \* interrupt signals delivered to the process (SpecCli)
MaxText == 5        \* atoms in a command text (SpecTranslate)

\* ------------------------------------------------------------------ values
NULL == {}
Some(x) == {x}
TheOf(o) == CHOOSE x \in o : TRUE
EMPTY == <<>>

\* a || b for an optional text a: undefined, null and "" are falsy
JsOr(a, b) == IF a = NULL \/ a = Some(EMPTY) THEN b ELSE TheOf(a)

Whitespace == {" ", "\n", "\t"}

RECURSIVE TrimStart(_)
TrimStart(s) ==
    IF s # EMPTY /\ Head(s) \in Whitespace THEN TrimStart(Tail(s)) ELSE s

RECURSIVE TrimEnd(_)
TrimEnd(s) ==
    IF s # EMPTY /\ s[Len(s)] \in Whitespace
    THEN TrimEnd(SubSeq(s, 1, Len(s) - 1))
    ELSE s

\* String.prototype.trim
Trim(s) == TrimEnd(TrimStart(s))

\* String.prototype.startsWith(':')
StartsWithSigil(s) == s # EMPTY /\ Head(s) = ":"

\* ------------------------------------------------------------------ HTTP
\* What axios does with a reply: a 2xx status resolves with the body, any other
\* status rejects with an AxiosError that carries the body, no reply at all
\* rejects with an AxiosError without a response.
AxiosRejects(reply) == reply.status # "2xx"

AxiosError(reply) ==
    [isAxios |-> TRUE,
     message |-> IF reply.status = "none"
                 THEN <<"Network Error">>
                 ELSE <<"Request failed with status code ", reply.status>>,
     respError |-> IF reply.status = "none" THEN NULL ELSE reply.error]

\* new Error(message)
PlainError(msg) == [isAxios |-> FALSE, message |-> msg, respError |-> NULL]

\* axios.isAxiosError(e) ? e.response?.data?.error || e.message : e.message
AxiosOrMessage(e) == IF e.isAxios THEN JsOr(e.respError, e.message) ELSE e.message

BackendErrors == {NULL, Some(<<"quota exceeded">>)}

\* Replies of the backend to a request whose body carries {success, error?}
Replies ==
    {[status |-> "2xx", success |-> TRUE, error |-> NULL]}
    \cup {[status |-> "2xx", success |-> FALSE, error |-> e] : e \in BackendErrors}
    \cup {[status |-> "none", success |-> FALSE, error |-> NULL]}

\* The replies that differ for code that reads the status and the success flag only
BasicReplies == {r \in Replies : r.error = NULL}

\* ------------------------------------------------------------------ state
VARIABLES
    isActive,           \* this.isActive
    pollInterval,       \* this.pollInterval: 0 is null, i the timer start call i created
    heartbeatInterval,  \* this.heartbeatInterval, likewise
    commandCount,       \* this.commandCount
    lastHeartbeat,      \* this.lastHeartbeat: NULL or a Date
    lastCommandCheck,   \* this.lastCommandCheck, likewise
    timers,             \* interval timers scheduled on the event loop: <<kind, i>>
    starts,             \* the calls of start(): where each stands
    stops,              \* the calls of stop(): where each stands
    ticks,              \* the firings of poll timers: where each callback stands
    beats,              \* the firings of heartbeat timers, likewise
    sent,               \* requests sent so far, counted per endpoint
    console,            \* the console.error calls of the last step, by first argument
    input,              \* what the last step was given: call, timer, ok, failure
    remoteHandler,      \* RemoteCommand.remoteHandler is not null
    listeners,          \* the signals process.on has a listener for
    shutdowns,          \* the runs of the signal listeners: where each stands
    exit,               \* NULL while the process runs, then how it ended
    child,              \* NULL, or a shell command given to exec and what became of it
    command,            \* the command text given to the Command Translator
    parsed,             \* NULL, or what parseCliCommand returned for it
    request,            \* NULL, or the Command Request given to executeCommand
    execution           \* NULL, or where that call of executeCommand stands

\* the listener (RemoteCommandHandler) and the event loop around it
handler == <<isActive, pollInterval, heartbeatInterval, commandCount, lastHeartbeat,
             lastCommandCheck, timers, starts, stops, ticks, beats, sent, console, input>>

\* the process around the listener (RemoteCommand)
cli == <<remoteHandler, listeners, shutdowns, exit>>

\* what the listener leaves alone
outside == <<cli, child, command, parsed, request, execution>>

vars == <<handler, outside>>

fields == <<isActive, pollInterval, heartbeatInterval, commandCount, lastHeartbeat,
            lastCommandCheck>>

\* (a POST /api/echo-command in flight is a command executing via echo)
Endpoints == {"POST cli-session", "PUT cli-session", "DELETE cli-session",
              "GET remote-cli", "PUT remote-cli"}

Send(endpoint) == [sent EXCEPT ![endpoint] = @ + 1]

\* A reply that reports a failure: no reply, an error status, or success:false
Failing(reply) == reply.status # "2xx" \/ ~reply.success

\* What a step was given: a call, a timer firing, or a reply or callback that
\* reports no failure (ok) or a failure
Given(ok) == IF ok THEN "ok" ELSE "failure"

\* constructor
InitHandler ==
    /\ isActive = FALSE
    /\ pollInterval = 0
    /\ heartbeatInterval = 0
    /\ commandCount = 0
    /\ lastHeartbeat = NULL
    /\ lastCommandCheck = NULL
    /\ timers = {}
    /\ starts = <<>>
    /\ stops = <<>>
    /\ ticks = <<>>
    /\ beats = <<>>
    /\ sent = [e \in Endpoints |-> 0]
    /\ console = {}
    /\ input = "call"

\* RemoteCommand before `remote start`: no handler, no signal listener
InitCli ==
    /\ remoteHandler = FALSE
    /\ listeners = {}
    /\ shutdowns = <<>>
    /\ exit = NULL

\* no shell command, no command text and no Command Request at hand
InitIdle ==
    /\ child = NULL
    /\ command = EMPTY
    /\ parsed = NULL
    /\ request = NULL
    /\ execution = NULL

Init == InitHandler /\ InitCli /\ InitIdle

\* ------------------------------------------------------------------ start
\* registerSession, from the reply on: the error it throws (NULL: none).
registerSessionIgnoresSuccess(reply) ==
    IF AxiosRejects(reply) THEN Some(AxiosError(reply)) ELSE NULL

registerSession(reply) ==
    IF AxiosRejects(reply) THEN Some(AxiosError(reply))
    ELSE IF ~reply.success
         THEN Some(PlainError(JsOr(reply.error, <<"Failed to register session">>)))
         ELSE NULL

\* start() up to its first await: the registration request is sent.
\* (reply: the reply the call received, kept for reference)
Start ==
    /\ starts' = Append(starts, [pc |-> "registering", error |-> NULL, reply |-> NULL])
    /\ sent' = Send("POST cli-session")
    /\ console' = {}
    /\ input' = "call"
    /\ UNCHANGED <<fields, timers, stops, ticks, beats>>

\* start() from the registration reply to its end.
RegisterReply(i, reply) ==
    /\ i \in DOMAIN starts
    /\ starts[i].pc = "registering"
    /\ LET thrown == registerSession(reply) IN
       IF thrown = NULL
       THEN \* startPolling(); startHeartbeat(); isActive = true; startStatusDisplay()
            /\ pollInterval' = i
            /\ heartbeatInterval' = i
            /\ timers' = timers \cup {<<"poll", i>>, <<"heartbeat", i>>, <<"status", i>>}
            /\ isActive' = TRUE
            /\ starts' = [starts EXCEPT ![i] = [pc |-> "resolved", error |-> NULL,
                                                reply |-> Some(reply)]]
            /\ console' = {}
       ELSE \* both catch blocks print and throw the error on
            /\ starts' = [starts EXCEPT ![i] = [pc |-> "rejected",
                                                error |-> Some(TheOf(thrown).message),
                                                reply |-> Some(reply)]]
            /\ console' = {"Failed to register CLI session:",
                           "Failed to start remote command handler:"}
            /\ UNCHANGED <<isActive, pollInterval, heartbeatInterval, timers>>
    /\ input' = Given(~Failing(reply))
    /\ UNCHANGED <<commandCount, lastHeartbeat, lastCommandCheck, stops, ticks, beats, sent>>

\* ------------------------------------------------------------------ stop
\* stop() up to its await: the flag, the two timers, the deregistration request.
\* (active: whether the call found the listener active, kept for reference)
\* This mutant clears no timer.
StopLeavesTimers ==
    /\ isActive' = FALSE
    /\ pollInterval' = 0
    /\ heartbeatInterval' = 0
    /\ timers' = timers
    /\ stops' = Append(stops, [pc |-> "deactivating", active |-> isActive])
    /\ sent' = Send("DELETE cli-session")
    /\ console' = {}
    /\ input' = "call"
    /\ UNCHANGED <<commandCount, lastHeartbeat, lastCommandCheck, starts, ticks, beats>>

Stop ==
    /\ isActive' = FALSE
    /\ pollInterval' = 0
    /\ heartbeatInterval' = 0
    /\ timers' = timers \ ((IF pollInterval # 0 THEN {<<"poll", pollInterval>>} ELSE {})
                           \cup (IF heartbeatInterval # 0
                                 THEN {<<"heartbeat", heartbeatInterval>>} ELSE {}))
    /\ stops' = Append(stops, [pc |-> "deactivating", active |-> isActive])
    /\ sent' = Send("DELETE cli-session")
    /\ console' = {}
    /\ input' = "call"
    /\ UNCHANGED <<commandCount, lastHeartbeat, lastCommandCheck, starts, ticks, beats>>

\* deactivateSession from the reply on, then the end of stop().
\* This mutant has no catch in deactivateSession: stop() rejects.
DeactivateReplyThrows(j, reply) ==
    /\ j \in DOMAIN stops
    /\ stops[j].pc = "deactivating"
    /\ stops' = [stops EXCEPT ![j].pc = IF AxiosRejects(reply) THEN "rejected"
                                                              ELSE "resolved"]
    /\ console' = IF AxiosRejects(reply) THEN {"Error stopping remote command handler:"}
                                        ELSE {}
    /\ input' = Given(~Failing(reply))
    /\ UNCHANGED <<fields, timers, starts, ticks, beats, sent>>

DeactivateReply(j, reply) ==
    /\ j \in DOMAIN stops
    /\ stops[j].pc = "deactivating"
    /\ stops' = [stops EXCEPT ![j].pc = "resolved"]
    /\ console' = IF AxiosRejects(reply) THEN {"Failed to deactivate session:"} ELSE {}
    /\ input' = Given(~Failing(reply))
    /\ UNCHANGED <<fields, timers, starts, ticks, beats, sent>>

\* ------------------------------------------------------------------ executors
\* What the callback of child_process.exec receives: error is set on a non-zero
\* exit, when the timeout killed the process and when the output overran maxBuffer.
ExecCallbacks ==
    {[error |-> NULL, stdout |-> <<"h", "i", "\n">>, stderr |-> EMPTY],
     [error |-> Some(<<"exit code 1">>), stdout |-> EMPTY, stderr |-> <<"e">>],
     [error |-> Some(<<"killed by timeout">>), stdout |-> <<"h">>, stderr |-> EMPTY],
     [error |-> Some(<<"stdout maxBuffer length exceeded">>), stdout |-> <<"h">>,
      stderr |-> EMPTY]}

\* A settled promise: resolved with its value, or rejected with the error's message.
Resolved(v) == [ok |-> TRUE, value |-> v]
Rejected(msg) == [ok |-> FALSE, value |-> msg]

\* executeSystemCommand, from the callback of exec on.
\* This mutant stores the output as captured.
executeSystemCommandUntrimmed(cb) ==
    IF cb.error # NULL
    THEN Rejected(<<"Command failed: ">> \o TheOf(cb.error))
    ELSE Resolved(JsOr(Some(JsOr(Some(cb.stdout), cb.stderr)),
                       <<"Command completed successfully">>))

executeSystemCommand(cb) ==
    IF cb.error # NULL
    THEN Rejected(<<"Command failed: ">> \o TheOf(cb.error))
    ELSE Resolved(Trim(JsOr(Some(JsOr(Some(cb.stdout), cb.stderr)),
                            <<"Command completed successfully">>)))

\* Replies of POST /api/echo-command: {success, output?, error?}
EchoReplies ==
    {[status |-> "2xx", success |-> TRUE, error |-> NULL, output |-> Some(<<"o", "k">>)],
     [status |-> "2xx", success |-> FALSE, error |-> Some(<<"quota exceeded">>),
      output |-> NULL],
     [status |-> "none", success |-> FALSE, error |-> NULL, output |-> NULL]}

\* handleEchoCommand, from the reply on.
handleEchoCommand(reply) ==
    IF AxiosRejects(reply)
    THEN IF AxiosError(reply).respError \notin {NULL, Some(EMPTY)}
         THEN Rejected(TheOf(reply.error))
         ELSE Rejected(<<"API request failed: ">> \o AxiosError(reply).message)
    ELSE IF reply.success
         THEN Resolved(JsOr(reply.output, <<"Command executed successfully">>))
         ELSE Rejected(<<"API request failed: ">>
                       \o JsOr(reply.error, <<"Command execution failed">>))

\* executeEchoCommand, from the reply on.
executeEchoCommand(reply) ==
    LET r == handleEchoCommand(reply) IN
    IF r.ok THEN r ELSE Rejected(<<"Echo CLI command failed: ">> \o r.value)

\* ------------------------------------------------------------------ commands
\* The Command Requests the backend hands out (id apart).
CommandPool ==
    {[command |-> <<":", "h">>, type |-> "echo-cli"],
     [command |-> <<"l", "s">>, type |-> "system"]}

RECURSIVE SeqsUpTo(_, _)
SeqsUpTo(S, n) ==
    IF n = 0 THEN {<<>>}
    ELSE LET shorter == SeqsUpTo(S, n - 1) IN
         shorter \cup {Append(q, x) : q \in shorter, x \in S}

Batches == SeqsUpTo(CommandPool, MaxBatch)

\* The backend gives every request it hands out an id of its own: here the
\* fetch and the place in its reply.
WithIds(batch, k) ==
    [n \in 1..Len(batch) |->
        [id |-> <<"id", k, n>>, command |-> batch[n].command, type |-> batch[n].type]]

\* One Command Request of a fetched batch, as executeCommand sees it:
\*   st       pending, executing (the executor is awaited), reporting (the report
\*            is awaited), done (executeCommand has returned or thrown)
\*   via      the executor chosen
\*   outcome  none, returned, threw: how the executor settled (while reporting)
\*   puts     reports sent for this execution
\*   report   the report in flight
NewCommand(req) ==
    [req |-> req, st |-> "pending", via |-> "none", outcome |-> "none",
     puts |-> 0, report |-> NULL]

\* executeCommand's choice of executor
\* This mutant goes by the type field.
ExecutorByType(req) == IF req.type = "echo-cli" THEN "echo" ELSE "system"

Executor(req) == IF StartsWithSigil(req.command) THEN "echo" ELSE "system"

\* the for...of loop of checkForCommands: the next command to execute, 0 at the end
LoopAdvanceFromEnd(cmds) ==
    IF \E n \in DOMAIN cmds : cmds[n].st = "pending"
    THEN CHOOSE n \in DOMAIN cmds :
             /\ cmds[n].st = "pending"
             /\ \A m \in DOMAIN cmds : cmds[m].st = "pending" => m <= n
    ELSE 0

LoopAdvance(cmds) ==
    IF \E n \in DOMAIN cmds : cmds[n].st = "pending"
    THEN CHOOSE n \in DOMAIN cmds :
             /\ cmds[n].st = "pending"
             /\ \A m \in DOMAIN cmds : cmds[m].st = "pending" => n <= m
    ELSE 0

\* A step of a poll tick, as a record of what it did: the tick afterwards, the
\* commands begun, the requests sent, the console.error calls made.
\* executeCommand up to the await of its executor:
Dispatch(tick, n) ==
    [tick |-> [tick EXCEPT !.cmds[n].st = "executing",
                           !.cmds[n].via = Executor(tick.cmds[n].req)],
     begun |-> 1, puts |-> 0, log |-> {}]

\* the callback of the poll timer returns: the batch is gone
Finished(tick, log) ==
    [tick |-> [tick EXCEPT !.pc = "done", !.cmds = <<>>], begun |-> 0, puts |-> 0,
     log |-> log]

\* the loop of checkForCommands goes on after executeCommand has returned
Continue(tick) ==
    IF LoopAdvance(tick.cmds) # 0
    THEN Dispatch(tick, LoopAdvance(tick.cmds))
    ELSE Finished(tick, {})

\* reportCommandResult's command id: the first 16 hex digits of the SHA-256 of
\* `${sessionId}-${command}-${Date.now()}`
CommandId(req, now) == <<"sha256/16", "sessionId", req.command, now>>

\* the body of PUT /api/remote-cli
ReportBodyAlwaysSuccess(req, result, error, now) ==
    [commandId |-> CommandId(req, now), success |-> TRUE, output |-> result,
     error |-> error]

ReportBody(req, result, error, now) ==
    [commandId |-> CommandId(req, now),
     success |-> (error = NULL \/ error = Some(EMPTY)),
     output |-> result,
     error |-> error]

\* executeCommand from the settling of its executor to the await of the report.
\* This mutant has no catch: the executor's exception ends executeCommand and
\* is caught by checkForCommands.
SettledNoCatch(tick, n, settled, now) ==
    IF settled.ok
    THEN [tick |-> [tick EXCEPT !.cmds[n].st = "reporting",
                                !.cmds[n].outcome = "returned",
                                !.cmds[n].puts = @ + 1,
                                !.cmds[n].report =
                                    Some(ReportBody(tick.cmds[n].req, Some(settled.value),
                                                    NULL, now))],
          begun |-> 0, puts |-> 1, log |-> {}]
    ELSE Finished(tick, {"Error checking for commands:"})

Settled(tick, n, settled, now) ==
    LET result == IF settled.ok THEN Some(settled.value) ELSE NULL
        error == IF settled.ok THEN NULL ELSE Some(settled.value)
    IN [tick |-> [tick EXCEPT !.cmds[n].st = "reporting",
                              !.cmds[n].outcome = IF settled.ok THEN "returned" ELSE "threw",
                              !.cmds[n].puts = @ + 1,
                              !.cmds[n].report =
                                  Some(ReportBody(tick.cmds[n].req, result, error, now))],
        begun |-> 0, puts |-> 1,
        log |-> IF settled.ok THEN {} ELSE {"Command failed:"}]

\* reportCommandResult from the reply on: its catch and its success check print.
ReportLog(reply) ==
    IF AxiosRejects(reply) THEN {"Error reporting command result:"}
    ELSE IF ~reply.success THEN {"Failed to report command result:"}
    ELSE {}

\* executeCommand has returned: its locals are gone
Returned(tick, n) ==
    [tick EXCEPT !.cmds[n].st = "done", !.cmds[n].outcome = "none",
                 !.cmds[n].report = NULL]

\* executeCommand from the reply to its report to its end, and the loop going on.
\* This mutant sends the report again when it failed.
ReportedWithRetry(tick, n, reply) ==
    IF ReportLog(reply) # {} /\ tick.cmds[n].puts < 2
    THEN [tick |-> [tick EXCEPT !.cmds[n].puts = @ + 1],
          begun |-> 0, puts |-> 1, log |-> ReportLog(reply)]
    ELSE [Continue(Returned(tick, n)) EXCEPT !.log = @ \cup ReportLog(reply)]

Reported(tick, n, reply) ==
    [Continue(Returned(tick, n)) EXCEPT !.log = @ \cup ReportLog(reply)]

\* ------------------------------------------------------------------ polling
Clock == 0..MaxClock
NewDate == Some("date")

\* the guards of the two timer callbacks
PollGuardWithBreaker ==
    isActive /\ ~\E k \in DOMAIN ticks : ticks[k].pc = "done" /\ ticks[k].failed

\* This mutant lets one tick at a time through.
PollGuardSerialized ==
    isActive /\ ~\E k \in DOMAIN ticks : ticks[k].pc \in {"fetching", "draining"}

PollGuard == isActive

HeartbeatGuard == isActive

\* The effect of one step of a poll tick on the listener.
Apply(k, step) ==
    /\ ticks' = [ticks EXCEPT ![k] = step.tick]
    /\ commandCount' = commandCount + step.begun
    /\ sent' = [sent EXCEPT !["PUT remote-cli"] = @ + step.puts]
    /\ console' = step.log

\* A firing of the poll timer:
\*   pc      skipped (the guard returned), fetching, draining, done
\*   failed  the fetch failed
NewTick(i, pc) == [timer |-> i, pc |-> pc, failed |-> FALSE, cmds |-> <<>>]

\* The callback of startPolling's timer, up to the await of the fetch.
PollFire(i) ==
    /\ <<"poll", i>> \in timers
    /\ Len(ticks) < MaxTicks
    /\ IF PollGuard
       THEN /\ ticks' = Append(ticks, NewTick(i, "fetching"))
            /\ lastCommandCheck' = NewDate
            /\ sent' = Send("GET remote-cli")
       ELSE /\ ticks' = Append(ticks, NewTick(i, "skipped"))
            /\ UNCHANGED <<lastCommandCheck, sent>>
    /\ console' = {}
    /\ input' = "timer"
    /\ UNCHANGED <<isActive, pollInterval, heartbeatInterval, commandCount, lastHeartbeat,
                   timers, starts, stops, beats>>

\* checkForCommands from the reply to the fetch on; a reply with success and
\* commands begins the first executeCommand.
FetchReply(k, reply, batch) ==
    /\ k \in DOMAIN ticks
    /\ ticks[k].pc = "fetching"
    /\ reply.success \/ batch = <<>>
    /\ LET tick == [ticks[k] EXCEPT !.pc = "draining",
                                    !.cmds = [n \in 1..Len(batch) |->
                                                 NewCommand(WithIds(batch, k)[n])]]
       IN Apply(k, IF AxiosRejects(reply)
                   THEN Finished([ticks[k] EXCEPT !.failed = TRUE],
                                 {"Error checking for commands:"})
                   ELSE IF reply.success /\ Len(batch) > 0
                        THEN Continue(tick)
                        ELSE Finished([ticks[k] EXCEPT !.failed = ~reply.success], {}))
    /\ input' = Given(~Failing(reply))
    /\ UNCHANGED <<isActive, pollInterval, heartbeatInterval, lastHeartbeat,
                   lastCommandCheck, timers, starts, stops, beats>>

Executing(k, n) ==
    /\ k \in DOMAIN ticks
    /\ n \in DOMAIN ticks[k].cmds
    /\ ticks[k].cmds[n].st = "executing"

\* The child process of a system command ends.
ExecDone(k, n, cb, now) ==
    /\ Executing(k, n)
    /\ ticks[k].cmds[n].via = "system"
    /\ Apply(k, Settled(ticks[k], n, executeSystemCommand(cb), now))
    /\ input' = Given(cb.error = NULL)
    /\ UNCHANGED <<isActive, pollInterval, heartbeatInterval, lastHeartbeat,
                   lastCommandCheck, timers, starts, stops, beats>>

\* The backend replies to the forwarded internal command.
EchoReply(k, n, reply, now) ==
    /\ Executing(k, n)
    /\ ticks[k].cmds[n].via = "echo"
    /\ Apply(k, Settled(ticks[k], n, executeEchoCommand(reply), now))
    /\ input' = Given(~Failing(reply))
    /\ UNCHANGED <<isActive, pollInterval, heartbeatInterval, lastHeartbeat,
                   lastCommandCheck, timers, starts, stops, beats>>

\* The backend replies to a result report.
ReportReply(k, n, reply) ==
    /\ k \in DOMAIN ticks
    /\ n \in DOMAIN ticks[k].cmds
    /\ ticks[k].cmds[n].st = "reporting"
    /\ Apply(k, Reported(ticks[k], n, reply))
    /\ input' = Given(~Failing(reply))
    /\ UNCHANGED <<isActive, pollInterval, heartbeatInterval, lastHeartbeat,
                   lastCommandCheck, timers, starts, stops, beats>>

\* ------------------------------------------------------------------ heartbeat
\* The callback of startHeartbeat's timer, up to the await of the request.
HeartbeatFire(i) ==
    /\ <<"heartbeat", i>> \in timers
    /\ Len(beats) < MaxBeats
    /\ IF HeartbeatGuard
       THEN /\ beats' = Append(beats, [timer |-> i, pc |-> "sending", failed |-> FALSE])
            /\ sent' = Send("PUT cli-session")
       ELSE /\ beats' = Append(beats, [timer |-> i, pc |-> "skipped", failed |-> FALSE])
            /\ UNCHANGED sent
    /\ console' = {}
    /\ input' = "timer"
    /\ UNCHANGED <<fields, timers, starts, stops, ticks>>

\* The callback from the reply on. The body of the reply is not looked at.
HeartbeatReply(h, reply) ==
    /\ h \in DOMAIN beats
    /\ beats[h].pc = "sending"
    /\ beats' = [beats EXCEPT ![h].pc = "done",
                              ![h].failed = AxiosRejects(reply) \/ ~reply.success]
    /\ IF AxiosRejects(reply)
       THEN /\ console' = {"Heartbeat failed:"}
            /\ UNCHANGED lastHeartbeat
       ELSE /\ lastHeartbeat' = NewDate
            /\ console' = {}
    /\ input' = Given(~Failing(reply))
    /\ UNCHANGED <<isActive, pollInterval, heartbeatInterval, commandCount,
                   lastCommandCheck, timers, starts, stops, ticks, sent>>

\* ------------------------------------------------------------------ specifications
\* What the event loop can deliver to the session: replies and timer firings.
Session(batches) ==
    \/ \E i \in DOMAIN starts, reply \in Replies : RegisterReply(i, reply) /\ UNCHANGED outside
    \/ \E j \in DOMAIN stops, reply \in BasicReplies : DeactivateReply(j, reply) /\ UNCHANGED outside
    \/ \E i \in DOMAIN starts : PollFire(i) /\ UNCHANGED outside
    \/ \E k \in DOMAIN ticks, reply \in BasicReplies, batch \in batches :
           FetchReply(k, reply, batch) /\ UNCHANGED outside
    \/ \E i \in DOMAIN starts : HeartbeatFire(i) /\ UNCHANGED outside
    \/ \E h \in DOMAIN beats, reply \in BasicReplies : HeartbeatReply(h, reply) /\ UNCHANGED outside

\* What it can deliver to a command being executed.
Execution ==
    \/ \E k \in DOMAIN ticks, n \in 1..MaxBatch, cb \in ExecCallbacks, now \in Clock :
           ExecDone(k, n, cb, now) /\ UNCHANGED outside
    \/ \E k \in DOMAIN ticks, n \in 1..MaxBatch, reply \in EchoReplies, now \in Clock :
           EchoReply(k, n, reply, now) /\ UNCHANGED outside
    \/ \E k \in DOMAIN ticks, n \in 1..MaxBatch, reply \in BasicReplies :
           ReportReply(k, n, reply) /\ UNCHANGED outside

\* One session of the listener: start() once, stop() once, with a backend that
\* hands out commands.
Next ==
    \/ starts = <<>> /\ Start /\ UNCHANGED outside
    \/ stops = <<>> /\ Stop /\ UNCHANGED outside
    \/ Session(Batches)
    \/ Execution

Spec == Init /\ [][Next]_vars

\* Any sequence of start() and stop() calls on one listener, with a backend that
\* has no command pending.
NextLifecycle ==
    \/ Len(starts) < MaxStarts /\ Start /\ UNCHANGED outside
    \/ Len(stops) < MaxStops /\ Stop /\ UNCHANGED outside
    \/ Session({<<>>})

SpecLifecycle == Init /\ [][NextLifecycle]_vars

\* ------------------------------------------------------------------ process
\* `remote start` (RemoteCommand.startRemoteListener) and the interrupt signals.
\* How the process ended: process.exit(code), or the default action of a signal.
Signals == {"SIGINT", "SIGTERM"}

Exited(code) == Some([how |-> "exit", code |-> code])

Killed(sig) == Some([how |-> sig])

\* startRemoteListener up to await this.remoteHandler.start(), with a token at hand
StartRemoteListener ==
    /\ exit = NULL
    /\ starts = <<>>
    /\ ~(remoteHandler /\ isActive)
    /\ Start
    /\ remoteHandler' = TRUE
    /\ UNCHANGED <<listeners, shutdowns, exit, child, command, parsed, request, execution>>

\* startRemoteListener from the settling of start() on: the signal listeners are
\* registered, or the catch ends the process with code 1.
ListenerStarted(reply) ==
    /\ exit = NULL
    /\ RegisterReply(1, reply)
    /\ IF registerSession(reply) = NULL
       THEN listeners' = Signals /\ exit' = exit
       ELSE listeners' = listeners /\ exit' = Exited(1)
    /\ UNCHANGED <<remoteHandler, shutdowns, child, command, parsed, request, execution>>

\* the commands whose executor is awaited: <<tick, place>>
ExecutingNow ==
    {kn \in (DOMAIN ticks) \X (1..MaxBatch) :
        kn[2] \in DOMAIN ticks[kn[1]].cmds /\ ticks[kn[1]].cmds[kn[2]].st = "executing"}

\* A signal arrives. With a listener: stopRemoteListener up to the await of stop().
\* (stop: the stop() call made, 0 for none; working: the commands that were being
\* executed when the signal arrived, kept for reference)
\* This mutant does not await stopRemoteListener before process.exit(0).
SignalExitsAtOnce(sig) ==
    /\ exit = NULL
    /\ Len(shutdowns) < MaxSignals
    /\ IF sig \notin listeners
       THEN /\ exit' = Killed(sig)
            /\ UNCHANGED <<handler, shutdowns>>
       ELSE /\ Stop
            /\ shutdowns' = Append(shutdowns, [signal |-> sig, stop |-> Len(stops) + 1,
                                               working |-> ExecutingNow])
            /\ exit' = Exited(0)
    /\ UNCHANGED <<remoteHandler, listeners, child, command, parsed, request, execution>>

Signal(sig) ==
    /\ exit = NULL
    /\ Len(shutdowns) < MaxSignals
    /\ IF sig \notin listeners
       THEN \* the default action of the signal ends the process
            /\ exit' = Killed(sig)
            /\ UNCHANGED <<handler, shutdowns>>
       ELSE IF remoteHandler
            THEN /\ Stop
                 /\ shutdowns' = Append(shutdowns,
                                        [signal |-> sig, stop |-> Len(stops) + 1,
                                         working |-> ExecutingNow])
                 /\ exit' = exit
            ELSE \* 'Remote listener is not running', then process.exit(0)
                 /\ shutdowns' = Append(shutdowns, [signal |-> sig, stop |-> 0,
                                                    working |-> ExecutingNow])
                 /\ exit' = Exited(0)
                 /\ UNCHANGED handler
    /\ UNCHANGED <<remoteHandler, listeners, child, command, parsed, request, execution>>

\* The signal listener from the settling of stop() on: remoteHandler = null, then
\* process.exit(0).
Shutdown(s, reply) ==
    /\ exit = NULL
    /\ s \in DOMAIN shutdowns
    /\ shutdowns[s].stop # 0
    /\ DeactivateReply(shutdowns[s].stop, reply)
    /\ remoteHandler' = FALSE
    /\ exit' = Exited(0)
    /\ UNCHANGED <<listeners, shutdowns, child, command, parsed, request, execution>>

\* The process of `remote start`: the listener is started once, signals arrive,
\* the backend hands out batches of at most one command, until the process ends.
NextCli ==
    \/ StartRemoteListener
    \/ \E reply \in Replies : ListenerStarted(reply)
    \/ \E sig \in Signals : Signal(sig)
    \/ \E s \in DOMAIN shutdowns, reply \in BasicReplies : Shutdown(s, reply)
    \/ \E i \in DOMAIN starts : exit = NULL /\ PollFire(i) /\ UNCHANGED outside
    \/ \E k \in DOMAIN ticks, reply \in BasicReplies, batch \in SeqsUpTo(CommandPool, 1) :
           exit = NULL /\ FetchReply(k, reply, batch) /\ UNCHANGED outside
    \/ \E i \in DOMAIN starts : exit = NULL /\ HeartbeatFire(i) /\ UNCHANGED outside
    \/ \E h \in DOMAIN beats, reply \in BasicReplies :
           exit = NULL /\ HeartbeatReply(h, reply) /\ UNCHANGED outside
    \/ \E k \in DOMAIN ticks, cb \in ExecCallbacks, now \in Clock :
           exit = NULL /\ ExecDone(k, 1, cb, now) /\ UNCHANGED outside
    \/ \E k \in DOMAIN ticks, reply \in EchoReplies, now \in Clock :
           exit = NULL /\ EchoReply(k, 1, reply, now) /\ UNCHANGED outside
    \/ \E k \in DOMAIN ticks, reply \in BasicReplies :
           exit = NULL /\ ReportReply(k, 1, reply) /\ UNCHANGED outside

SpecCli == Init /\ [][NextCli]_vars

\* ------------------------------------------------------------------ shell commands
\* executeSystemCommand with the child process behind exec: the timeout option it
\* passes and what exec does with it.
\* The timeouts a request carries: none, or a number of milliseconds
Timeouts == {NULL, Some(0), Some(1000), Some(60000)}

\* The shell commands by what they do: runs is the time they take (NULL: they do not
\* end on their own), code their exit code, stdout what they print.
Processes ==
    [runs : {NULL, Some(500), Some(5000), Some(45000), Some(90000)},
     code : {0, 1},
     stdout : {EMPTY, <<"h", "i", "\n">>, <<" ">>}]

\* const { timeout = 30000 } = commandRequest
TimeoutOption(timeout) == IF timeout = NULL THEN 30000 ELSE TheOf(timeout)

\* the process is still running when the time has passed
Outruns(process, time) == process.runs = NULL \/ TheOf(process.runs) > time

\* child_process.exec with options.timeout: what its callback receives, NULL if it
\* is never called. A timeout greater than 0 kills a process that outruns it;
\* a timeout of 0 sets no timer.
exec(process, timeout) ==
    IF timeout > 0 /\ Outruns(process, timeout)
    THEN Some([error |-> Some(<<"killed by timeout">>), stdout |-> EMPTY, stderr |-> EMPTY])
    ELSE IF process.runs = NULL
         THEN NULL
         ELSE IF process.code # 0
              THEN Some([error |-> Some(<<"exit code 1">>), stdout |-> process.stdout,
                         stderr |-> EMPTY])
              ELSE Some([error |-> NULL, stdout |-> process.stdout, stderr |-> EMPTY])

\* executeSystemCommand up to the call of exec
ExecCall(timeout, process) ==
    /\ child = NULL
    /\ child' = Some([timeout |-> timeout, process |-> process, st |-> "running",
                      settled |-> NULL])
    /\ UNCHANGED <<handler, cli, command, parsed, request, execution>>

\* the callback of exec settles the promise of executeSystemCommand
ExecCallback ==
    /\ child # NULL
    /\ TheOf(child).st = "running"
    /\ LET c == TheOf(child)
           cb == exec(c.process, TimeoutOption(c.timeout))
       IN /\ cb # NULL
          /\ child' = Some([c EXCEPT !.st = "settled",
                                     !.settled = Some(executeSystemCommand(TheOf(cb)))])
    /\ UNCHANGED <<handler, cli, command, parsed, request, execution>>

NextExec ==
    \/ \E timeout \in Timeouts, process \in Processes : ExecCall(timeout, process)
    \/ ExecCallback

SpecExec == Init /\ [][NextExec]_vars

\* ------------------------------------------------------------------ translator
\* parseCliCommand (echo-command-handler.ts). A command text is a sequence of atoms:
\* the sigil, a whitespace character, a double quote, or a word (a run of other
\* characters). A token is a text without whitespace.
\* String.prototype.split(/\s+/): the parts between the runs of whitespace, empty
\* parts at the ends included
RECURSIVE SplitFrom(_, _)
SplitFrom(s, part) ==
    IF s = EMPTY THEN <<part>>
    ELSE IF Head(s) \in Whitespace
         THEN <<part>> \o SplitFrom(TrimStart(Tail(s)), EMPTY)
         ELSE SplitFrom(Tail(s), Append(part, Head(s)))

Split(s) == SplitFrom(s, EMPTY)

\* String.prototype.toLowerCase, on the words that have capitals
LowerWord(w) ==
    CASE w = "GIT" -> "git"
      [] w = "Task" -> "task"
      [] OTHER -> w

RECURSIVE ToLowerCase(_)
ToLowerCase(s) ==
    IF s = EMPTY THEN EMPTY ELSE <<LowerWord(Head(s))>> \o ToLowerCase(Tail(s))

\* Array.prototype.filter(Boolean) on [subCommand, ...args]: undefined and '' go
FilterBoolean(subCommand, args) ==
    SelectSeq((IF subCommand = NULL THEN <<>> ELSE <<TheOf(subCommand)>>) \o args,
              LAMBDA t : t # EMPTY)

\* subCommand === 'w' for one of the words
SubCommandIs(subCommand, words) == \E w \in words : subCommand = Some(<<w>>)

\* { dashboardCommand, args }
Translation(dashboardCommand, args) == [dashboardCommand |-> dashboardCommand, args |-> args]

\* the return that ends case 'task' and case 'git': the verb's default, no arguments
\* This mutant keeps the arguments.
SubVerbFallbackWithArgs(dashboardCommand, args) == Translation(dashboardCommand, args)

SubVerbFallback(dashboardCommand, args) == Translation(dashboardCommand, <<>>)

\* case 'task'
TaskCase(subCommand, args) ==
    IF SubCommandIs(subCommand, {"add", "create"})
    THEN Translation(<<":", "task", " ", "add">>, args)
    ELSE IF SubCommandIs(subCommand, {"list"})
    THEN Translation(<<":", "task", " ", "list">>, args)
    ELSE IF SubCommandIs(subCommand, {"complete", "done"})
    THEN Translation(<<":", "task", " ", "complete">>, args)
    ELSE IF SubCommandIs(subCommand, {"delete", "remove"})
    THEN Translation(<<":", "task", " ", "delete">>, args)
    ELSE SubVerbFallback(<<":", "task", " ", "list">>, args)

\* case 'git'
GitCase(subCommand, args) ==
    IF SubCommandIs(subCommand, {"status"}) \/ subCommand \in {NULL, Some(EMPTY)}
    THEN Translation(<<":", "git", " ", "status">>, args)
    ELSE IF SubCommandIs(subCommand, {"commit"})
    THEN Translation(<<":", "git", " ", "commit">>, args)
    ELSE IF SubCommandIs(subCommand, {"branches"})
    THEN Translation(<<":", "git", " ", "branches">>, args)
    ELSE IF SubCommandIs(subCommand, {"prs", "pr"})
    THEN Translation(<<":", "git", " ", "prs">>, args)
    ELSE IF SubCommandIs(subCommand, {"config"})
    THEN Translation(<<":", "git", " ", "config">>, args)
    ELSE SubVerbFallback(<<":", "git", " ", "status">>, args)

\* default, for a text with the sigil: const [cmd, ...cmdArgs] = command.split(/\s+/)
\* This mutant splits the text without its sigil.
PassThroughClean(text) ==
    LET parts == Split(Trim(Tail(text))) IN Translation(parts[1], Tail(parts))

PassThrough(text) ==
    LET parts == Split(text) IN Translation(parts[1], Tail(parts))

\* default, for a text without the sigil
UnknownVerb(mainCommand, subCommand, args) ==
    Translation(<<":">> \o mainCommand, FilterBoolean(subCommand, args))

parseCliCommand(text) ==
    LET cleanCommand == IF StartsWithSigil(text) THEN Tail(text) ELSE text
        parts == Split(Trim(cleanCommand))
        mainCommand == parts[1]
        subCommand == IF Len(parts) >= 2 THEN Some(parts[2]) ELSE NULL
        args == SubSeq(parts, 3, Len(parts))
        verb == ToLowerCase(mainCommand)
        Verb(words) == \E w \in words : verb = <<w>>
    IN IF Len(parts) = 0 THEN Translation(<<":", "help">>, <<>>)
       ELSE IF Verb({"agent"})
       THEN IF SubCommandIs(subCommand, {"ask"})
            THEN Translation(<<":", "agent">>, args)
            ELSE Translation(<<":", "agent">>, FilterBoolean(subCommand, args))
       ELSE IF Verb({"task"}) THEN TaskCase(subCommand, args)
       ELSE IF Verb({"git"}) THEN GitCase(subCommand, args)
       ELSE IF Verb({"help", "h"}) THEN Translation(<<":", "help">>, args)
       ELSE IF Verb({"clear", "cls"}) THEN Translation(<<":", "clear">>, args)
       ELSE IF Verb({"version"}) THEN Translation(<<":", "version">>, args)
       ELSE IF Verb({"time"}) THEN Translation(<<":", "time">>, args)
       ELSE IF Verb({"plugin", "plugins"})
       THEN Translation(<<":", "plugin">>, FilterBoolean(subCommand, args))
       ELSE IF Verb({"memory"}) THEN Translation(<<":", "memory">>, args)
       ELSE IF Verb({"logs"}) THEN Translation(<<":", "logs">>, args)
       ELSE IF StartsWithSigil(text) THEN PassThrough(text)
       ELSE UnknownVerb(mainCommand, subCommand, args)

\* The command texts tried: every text of at most MaxText atoms of the alphabet,
\* and the texts of the documented scenarios.
Alphabet == {":", " ", "task", "git", "GIT", "add", "commit", "foo"}

\* task add "Write docs" -d "details"
TaskAddScenario ==
    <<"task", " ", "add", " ", "\"", "Write", " ", "docs", "\"", " ", "-d", " ",
      "\"", "details", "\"">>

Scenarios ==
    {TaskAddScenario,
     <<"foo", " ", "bar", " ", "baz">>,
     <<":", "help", " ", "me">>,
     <<"\t", " ", "\n">>}

Texts == SeqsUpTo(Alphabet, MaxText) \cup Scenarios

InitTranslate ==
    /\ InitHandler
    /\ InitCli
    /\ child = NULL
    /\ command \in Texts
    /\ parsed = NULL
    /\ request = NULL
    /\ execution = NULL

\* handleEchoCommand calls parseCliCommand(command)
Translate ==
    /\ parsed = NULL
    /\ parsed' = Some(parseCliCommand(command))
    /\ UNCHANGED <<handler, cli, child, command, request, execution>>

SpecTranslate == InitTranslate /\ [][Translate]_vars

\* ------------------------------------------------------------------ one command
\* executeCommand for one Command Request, with what it hands to its executor in
\* view: the body forwarded to the backend, the command line given to the shell.
\* The args a request carries: none, an empty list, a list of texts
RequestArgs == {NULL, Some(<<>>), Some(<<(<<"Buy", " ", "milk">>), (<<"-p">>)>>)}

RequestCommands ==
    {<<":", "task", " ", "add">>, <<":", "help">>, <<":", "foo", " ", "bar">>,
     <<"echo", " ", "hello">>, <<"ls">>}

Requests == [command : RequestCommands, args : RequestArgs, type : {"echo-cli", "system"}]

\* The Command Request at hand and the call of executeCommand for it
Request == TheOf(request)

Execution1 == TheOf(execution)

\* const { command, args = [] } = commandRequest
ArgsOf(req) == IF req.args = NULL THEN <<>> ELSE TheOf(req.args)

\* ' ' + args.join(' ')
RECURSIVE JoinArgs(_)
JoinArgs(args) ==
    IF args = <<>> THEN EMPTY ELSE <<" ">> \o Head(args) \o JoinArgs(Tail(args))

\* args.length > 0 ? `${command} ${args.join(' ')}` : command
FullCommand(req) == req.command \o JoinArgs(ArgsOf(req))

\* the body of POST /api/echo-command: handleEchoCommand is given the command text
EchoCommandBody(commandText) ==
    LET t == parseCliCommand(commandText) IN [command |-> t.dashboardCommand, args |-> t.args]

\* The replies of POST /api/echo-command: with success, any output (none, the empty
\* text, a text, whitespace); without, an error text or none; an error status with
\* or without error text; no reply.
EchoOutputs == {NULL, Some(EMPTY), Some(<<"o", "k">>), Some(<<" ">>)}

ForwardReplies ==
    {[status |-> "2xx", success |-> TRUE, error |-> NULL, output |-> o] : o \in EchoOutputs}
    \cup {[status |-> st, success |-> FALSE, error |-> e, output |-> NULL] :
              st \in {"2xx", "500"}, e \in BackendErrors}
    \cup {[status |-> "none", success |-> FALSE, error |-> NULL, output |-> NULL]}

\* What the callback of exec can receive for a command line: `echo hello` prints
\* hello and a newline and exits with 0; of the others nothing is known.
Stdouts == {EMPTY, <<"hello", "\n">>, <<" ", "\n">>, <<"\n", "a", " ", "b", " ">>}

Stderrs == {EMPTY, <<"warn", "\n">>, <<" ">>}

ShellCallbacks(fullCommand) ==
    IF fullCommand = <<"echo", " ", "hello">>
    THEN {[error |-> NULL, stdout |-> <<"hello", "\n">>, stderr |-> EMPTY]}
    ELSE [error : {NULL, Some(<<"exit code 1">>)}, stdout : Stdouts, stderr : Stderrs]

\* result and error of executeCommand once its executor has settled
ResultOf(settled) == IF settled.ok THEN Some(settled.value) ELSE NULL

ErrorOf(settled) == IF settled.ok THEN NULL ELSE Some(settled.value)

\* the handler's fields and callbacks that executeCommand leaves alone
untouched == <<isActive, pollInterval, heartbeatInterval, lastHeartbeat, lastCommandCheck,
               timers, starts, stops, ticks, beats>>

\* executeCommand up to the await of its executor.
\* (reply, callback: what the executor received, kept for reference)
ExecuteCommand ==
    /\ request # NULL
    /\ execution = NULL
    /\ LET via == Executor(Request) IN
       execution' = Some([st |-> "executing", via |-> via,
                          forwarded |-> IF via = "echo"
                                        THEN Some(EchoCommandBody(Request.command))
                                        ELSE NULL,
                          fullCommand |-> IF via = "system" THEN Some(FullCommand(Request))
                                                            ELSE NULL,
                          reply |-> NULL, callback |-> NULL, settled |-> NULL,
                          report |-> NULL])
    /\ commandCount' = commandCount + 1
    /\ console' = {}
    /\ input' = "call"
    /\ UNCHANGED <<untouched, sent, cli, child, command, parsed, request>>

\* executeCommand from the settling of its executor to the await of the report
ExecutorSettled(settled, reply, callback, now) ==
    /\ execution' = Some([Execution1 EXCEPT
                             !.st = "reporting",
                             !.reply = reply,
                             !.callback = callback,
                             !.settled = Some(settled),
                             !.report = Some(ReportBody(Request, ResultOf(settled),
                                                        ErrorOf(settled), now))])
    /\ sent' = Send("PUT remote-cli")
    /\ console' = IF settled.ok THEN {} ELSE {"Command failed:"}
    /\ UNCHANGED <<untouched, commandCount, cli, child, command, parsed, request>>

\* The backend replies to the forwarded internal command.
EchoSettles(reply, now) ==
    /\ execution # NULL
    /\ Execution1.st = "executing"
    /\ Execution1.via = "echo"
    /\ ExecutorSettled(executeEchoCommand(reply), Some(reply), NULL, now)
    /\ input' = Given(~Failing(reply))

\* The callback of exec is called.
SystemSettles(cb, now) ==
    /\ execution # NULL
    /\ Execution1.st = "executing"
    /\ Execution1.via = "system"
    /\ cb \in ShellCallbacks(TheOf(Execution1.fullCommand))
    /\ ExecutorSettled(executeSystemCommand(cb), NULL, Some(cb), now)
    /\ input' = Given(cb.error = NULL)

\* executeCommand from the reply to its report to its end
ExecutionReported(reply) ==
    /\ execution # NULL
    /\ Execution1.st = "reporting"
    /\ execution' = Some([Execution1 EXCEPT !.st = "done"])
    /\ console' = ReportLog(reply)
    /\ input' = Given(~Failing(reply))
    /\ UNCHANGED <<untouched, commandCount, sent, cli, child, command, parsed, request>>

InitExecute ==
    /\ InitHandler
    /\ InitCli
    /\ child = NULL
    /\ command = EMPTY
    /\ parsed = NULL
    /\ request \in {Some(req) : req \in Requests}
    /\ execution = NULL

NextExecute ==
    \/ ExecuteCommand
    \/ \E reply \in ForwardReplies, now \in Clock : EchoSettles(reply, now)
    \/ \E cb \in ShellCallbacks(EMPTY), now \in Clock : SystemSettles(cb, now)
    \/ \E reply \in BasicReplies : ExecutionReported(reply)

\* One Command Request of the backend goes through executeCommand.
SpecExecute == InitExecute /\ [][NextExecute]_vars

\* ------------------------------------------------------------------ properties
\* the commands of the batches being drained: <<tick, place>>
Cmds == {kn \in (DOMAIN ticks) \X (1..MaxBatch) : kn[2] \in DOMAIN ticks[kn[1]].cmds}

Cmd(kn) == ticks[kn[1]].cmds[kn[2]]

\* executeCommand is in progress for the command
InExecuteCommand(kn) == Cmd(kn).st \in {"executing", "reporting"}

\* the step is taken by tick k while its command n is in state st
StepOf(k, n, st) ==
    /\ k \in DOMAIN ticks
    /\ n \in DOMAIN ticks[k].cmds
    /\ ticks[k].cmds[n].st = st
    /\ ticks'[k] # ticks[k]

TickEndpoints == {"PUT cli-session", "GET remote-cli", "PUT remote-cli"}

ReportLogs == {"Error reporting command result:", "Failed to report command result:"}

\* the step neither stops the listener nor touches its timers
NotFatal ==
    /\ isActive' = isActive
    /\ timers' = timers
    /\ pollInterval' = pollInterval
    /\ heartbeatInterval' = heartbeatInterval

\* C1: while the listener is active, executeCommand is in progress for at most one
\* Command Request at any time.
C1_AtMostOneExecuting ==
    isActive => Cardinality({kn \in Cmds : InExecuteCommand(kn)}) <= 1

\* C2: within one poll tick the commands are executed in list order, and a command
\* has not begun before every earlier command of the batch has been executed and
\* its report has been sent and has settled.
C2_SequentialInOrder ==
    \A k \in DOMAIN ticks : \A m, n \in DOMAIN ticks[k].cmds :
        (m < n /\ ticks[k].cmds[n].st # "pending")
            => /\ ticks[k].cmds[m].st = "done"
               /\ ticks[k].cmds[m].puts >= 1
               /\ ticks[k].cmds[m].report = NULL

C2_Witness ==
    \E k \in DOMAIN ticks :
        /\ Len(ticks[k].cmds) = 2
        /\ ticks[k].cmds[1].st = "done"
        /\ ticks[k].cmds[2].st = "executing"

AlreadyStopped ==
    /\ ~isActive
    /\ \E i \in DOMAIN starts : starts[i].pc = "resolved"
    /\ \A i \in DOMAIN starts : starts[i].pc # "registering"
    /\ stops # <<>>
    /\ \A j \in DOMAIN stops : stops[j].pc = "resolved"

\* C4: stop() on a listener that has already been stopped changes no state and sends
\* no further deregistration request.
C4_StopIsIdempotent ==
    [][(AlreadyStopped /\ Len(stops') > Len(stops))
          => (sent' = sent /\ NotFatal)]_vars

\* C5: heartbeats, fetches, the start of a command and result reports happen only
\* while the listener is active.
C5_WorkOnlyWhileActive ==
    [][~isActive => /\ commandCount' = commandCount
                    /\ \A e \in TickEndpoints : sent'[e] = sent[e]]_vars

\* C6: the commandId of a result report is the id of the Command Request executed.
C6_ReportCarriesRequestId ==
    \A kn \in Cmds :
        Cmd(kn).report # NULL => TheOf(Cmd(kn).report).commandId = Cmd(kn).req.id

\* C7: when the executor of a command fails, the failure becomes a report with
\* success:false that is sent, the poll tick goes on (nothing is thrown out of it),
\* the listener stays as active as it was with its timers; and a poll tick ends only
\* when every command of its batch has been executed.
C7_FailureIsReported ==
    [][/\ \A k \in DOMAIN ticks, n \in 1..MaxBatch :
             (StepOf(k, n, "executing") /\ input' = "failure")
                 => /\ ticks'[k].pc = "draining"
                    /\ ticks'[k].cmds[n].st = "reporting"
                    /\ ticks'[k].cmds[n].report # NULL
                    /\ ~TheOf(ticks'[k].cmds[n].report).success
                    /\ sent'["PUT remote-cli"] = sent["PUT remote-cli"] + 1
                    /\ NotFatal
       /\ \A k \in DOMAIN ticks :
             (ticks[k].pc = "draining" /\ ticks'[k].pc = "done")
                 => \A n \in DOMAIN ticks[k].cmds :
                        \/ ticks[k].cmds[n].st = "done"
                        \/ n = Len(ticks[k].cmds) /\ ticks[k].cmds[n].st = "reporting"
      ]_vars

C7_Witness ==
    /\ input = "failure"
    /\ isActive
    /\ {<<"poll", 1>>, <<"heartbeat", 1>>} \subseteq timers
    /\ \E k \in DOMAIN ticks :
          /\ Len(ticks[k].cmds) = 2
          /\ ticks[k].cmds[1].st = "reporting"
          /\ ticks[k].cmds[1].outcome = "threw"
          /\ ~TheOf(ticks[k].cmds[1].report).success
          /\ ticks[k].cmds[2].st = "pending"

\* C8: in every result report, success is true exactly if the executor returned,
\* error is non-null exactly if success is false, and output is null if success is
\* false.
C8_ReportFields ==
    \A kn \in Cmds :
        Cmd(kn).report # NULL =>
            LET r == TheOf(Cmd(kn).report) IN
            /\ r.success <=> Cmd(kn).outcome = "returned"
            /\ r.error # NULL <=> ~r.success
            /\ ~r.success => r.output = NULL

C8_Witness ==
    \E kn \in Cmds :
        /\ Cmd(kn).st = "reporting"
        /\ Cmd(kn).outcome = "threw"
        /\ ~TheOf(Cmd(kn).report).success
        /\ TheOf(Cmd(kn).report).error # NULL
        /\ TheOf(Cmd(kn).report).output = NULL

\* C9: one report is sent per execution; when the reply to it arrives, failure or
\* not, no report is sent again, a failure is printed, and the next command of the
\* batch begins (the tick ends after the last).
C9_ReportedOnce ==
    [][/\ \A kn \in Cmds' :
             ticks'[kn[1]].cmds[kn[2]].puts =
                 IF ticks'[kn[1]].cmds[kn[2]].st \in {"reporting", "done"} THEN 1 ELSE 0
       /\ \A k \in DOMAIN ticks, n \in 1..MaxBatch :
             StepOf(k, n, "reporting")
                 => /\ sent'["PUT remote-cli"] = sent["PUT remote-cli"]
                    /\ input' = "failure" => console' \cap ReportLogs # {}
                    /\ IF n < Len(ticks[k].cmds)
                       THEN /\ ticks'[k].cmds[n].st = "done"
                            /\ ticks'[k].cmds[n + 1].st = "executing"
                       ELSE ticks'[k].pc = "done"
      ]_vars

C9_Witness ==
    /\ input = "failure"
    /\ console \cap ReportLogs # {}
    /\ \E k \in DOMAIN ticks :
          /\ Len(ticks[k].cmds) = 2
          /\ ticks[k].cmds[1].st = "done"
          /\ ticks[k].cmds[1].puts = 1
          /\ ticks[k].cmds[2].st = "executing"

\* a heartbeat, a fetch, a report receives a failure
HeartbeatFails(h) ==
    h \in DOMAIN beats /\ beats[h].pc = "sending" /\ beats'[h].pc = "done"
    /\ input' = "failure"

FetchFails(k) ==
    k \in DOMAIN ticks /\ ticks[k].pc = "fetching" /\ ticks'[k].pc # "fetching"
    /\ input' = "failure"

ReportFails(k, n) == StepOf(k, n, "reporting") /\ input' = "failure"

\* the step begins no command and sends nothing
NoWork == commandCount' = commandCount /\ sent' = sent

\* a timer that fires while the listener is active sends its request
TicksIndependent ==
    /\ (Len(ticks') > Len(ticks) /\ isActive)
          => /\ ticks'[Len(ticks')].pc = "fetching"
             /\ sent'["GET remote-cli"] = sent["GET remote-cli"] + 1
    /\ (Len(beats') > Len(beats) /\ isActive)
          => /\ beats'[Len(beats')].pc = "sending"
             /\ sent'["PUT cli-session"] = sent["PUT cli-session"] + 1

DeactivateFails(j) ==
    j \in DOMAIN stops /\ stops[j].pc = "deactivating" /\ stops'[j].pc # "deactivating"
    /\ input' = "failure"

\* neither a poll timer nor a heartbeat timer is scheduled
TimersCancelled(scheduled) == \A t \in scheduled : t[1] \notin {"poll", "heartbeat"}

C12_StopCancelsTimers ==
    [][/\ (isActive /\ Len(stops') > Len(stops))
             => /\ sent'["DELETE cli-session"] = sent["DELETE cli-session"] + 1
                /\ ~isActive'
                /\ TimersCancelled(timers')
       /\ (\E j \in DOMAIN stops : stops[j].active)
             => /\ sent'["DELETE cli-session"] = sent["DELETE cli-session"]
                /\ sent'["PUT cli-session"] = sent["PUT cli-session"]
                /\ sent'["GET remote-cli"] = sent["GET remote-cli"]
                /\ TimersCancelled(timers')
      ]_vars

C12_Witness ==
    /\ \E j \in DOMAIN stops : stops[j].active /\ stops[j].pc = "resolved"
    /\ sent["DELETE cli-session"] = 1
    /\ sent["GET remote-cli"] = 2
    /\ sent["PUT cli-session"] = 1
    /\ \A k \in DOMAIN ticks : ticks[k].pc = "done"
    /\ TimersCancelled(timers)

\* the process has ended by process.exit(code)
ExitedWith(code) == exit # NULL /\ TheOf(exit).how = "exit" /\ TheOf(exit).code = code

\* the listener is running: start() has resolved
Running == starts # <<>> /\ starts[1].pc = "resolved"

\* C13: a signal that arrives while the listener is running starts the stop() path
\* (isActive false, both timers cancelled, the deregistration request sent); the
\* process ends with code 0 only after the stop() of a signal has resolved; and
\* while the listener is running no signal ends the process in any other way.
C13_SignalStopsThenExits ==
    /\ shutdowns # <<>>
          => /\ Running
             /\ ~isActive /\ pollInterval = 0 /\ heartbeatInterval = 0
             /\ TimersCancelled(timers)
             /\ \A s \in DOMAIN shutdowns : shutdowns[s].stop \in DOMAIN stops
             /\ sent["DELETE cli-session"] = Len(stops)
    /\ ExitedWith(0)
          => \E s \in DOMAIN shutdowns : stops[shutdowns[s].stop].pc = "resolved"
    /\ (exit # NULL /\ Running) => ExitedWith(0)

C13_Witness ==
    /\ ExitedWith(0)
    /\ Running
    /\ Len(shutdowns) = 1
    /\ shutdowns[1].signal = "SIGTERM"
    /\ stops[1].pc = "resolved"
    /\ sent["DELETE cli-session"] = 1

\* C14: the process does not end while a command that was being executed when the
\* signal arrived is still being executed, its result not yet reported.
C14_InFlightWorkCompletes ==
    exit # NULL
        => \A s \in DOMAIN shutdowns : \A kn \in shutdowns[s].working :
               kn \in Cmds => Cmd(kn).st # "executing"

\* C15: whatever timeout the request carries (none means 30000 ms), a shell command
\* that is running has a callback of exec to come, and one that outran its timeout
\* has settled as a failure.
C15_SystemCommandSettles ==
    child # NULL
        => LET c == TheOf(child) IN
           /\ c.st = "running" => exec(c.process, TimeoutOption(c.timeout)) # NULL
           /\ (c.st = "settled" /\ Outruns(c.process, TimeoutOption(c.timeout)))
                 => ~TheOf(c.settled).ok

\* the translation at hand
Parsed == TheOf(parsed)

\* the tokens of a text: its runs of atoms that are not whitespace
Tokens(text) == SelectSeq(Split(text), LAMBDA t : t # EMPTY)

\* the tokens after the sigil, if there is one: main verb, sub-verb, the rest
Words(text) == Tokens(IF StartsWithSigil(text) THEN Tail(text) ELSE text)

\* the verbs of the translator's table and the sub-verbs of task and git
KnownVerbs == {"agent", "task", "git", "help", "h", "clear", "cls", "version", "time",
               "plugin", "plugins", "memory", "logs"}

TaskSubVerbs == {"add", "create", "list", "complete", "done", "delete", "remove"}

GitSubVerbs == {"status", "commit", "branches", "prs", "pr", "config"}

\* the main verb of the text is the word
MainVerbIs(text, word) ==
    Words(text) # <<>> /\ ToLowerCase(Words(text)[1]) = <<word>>

\* the text has a sub-verb and it is none of the words
SubVerbNotIn(text, words) ==
    Len(Words(text)) >= 2 /\ \A w \in words : Words(text)[2] # <<w>>

\* C16: the canonical command of a text that begins with the sigil begins with the
\* sigil.
C16_SigilIsKept ==
    (parsed # NULL /\ StartsWithSigil(command))
        => StartsWithSigil(Parsed.dashboardCommand)

C16_Witness ==
    /\ parsed # NULL
    /\ command = <<":", "foo", " ", "add">>
    /\ Parsed.dashboardCommand = <<":", "foo">>

\* C17: task add "Write docs" -d "details" translates to `:task add` with the
\* arguments Write docs, -d, details.
C17_QuotedPhraseIsOneArgument ==
    (parsed # NULL /\ command = TaskAddScenario)
        => Parsed = Translation(<<":", "task", " ", "add">>,
                                <<(<<"Write", " ", "docs">>), (<<"-d">>), (<<"details">>)>>)

\* C18: the empty text, a text of whitespace only and the sigil alone translate to
\* `:help` with no arguments.
C18_EmptyInputIsHelp ==
    (parsed # NULL /\ (Trim(command) = EMPTY \/ command = <<":">>))
        => Parsed = Translation(<<":", "help">>, <<>>)

\* C19: git with a sub-verb that is not in its table, and git without sub-verb,
\* translate to `:git status` with no arguments; task with a sub-verb that is not
\* in its table translates to `:task list` with no arguments.
C19_UnknownSubVerbFallsBack ==
    parsed # NULL
        => /\ (MainVerbIs(command, "git")
                 /\ (Len(Words(command)) = 1 \/ SubVerbNotIn(command, GitSubVerbs)))
                 => Parsed = Translation(<<":", "git", " ", "status">>, <<>>)
           /\ (MainVerbIs(command, "task") /\ SubVerbNotIn(command, TaskSubVerbs))
                 => Parsed = Translation(<<":", "task", " ", "list">>, <<>>)

C19_Witness ==
    /\ command = <<"GIT", " ", "foo", " ", "add">>
    /\ parsed = Some(Translation(<<":", "git", " ", "status">>, <<>>))

\* C20: for a text whose main verb is not in the table: with the sigil, the first
\* token is the canonical command and the other tokens are the arguments in order;
\* without it, the canonical command is the sigil and the main verb, and the
\* arguments are the tokens after the main verb in order.
C20_UnknownVerbPassesThrough ==
    (parsed # NULL /\ Words(command) # <<>>
     /\ \A v \in KnownVerbs : ~MainVerbIs(command, v))
        => IF StartsWithSigil(command)
           THEN Parsed = Translation(Tokens(command)[1], Tail(Tokens(command)))
           ELSE Parsed = Translation(<<":">> \o Words(command)[1], Tail(Words(command)))

\* the reply the forwarding call received and the report made of the execution
Forwarded == execution # NULL /\ Execution1.reply # NULL

ForwardReply == TheOf(Execution1.reply)

Report == TheOf(Execution1.report)

\* C21: when the forwarding call of an internal command succeeds, the output of the
\* report is the output text of the backend's reply, the empty text included; when it
\* fails (no reply, an error status, success:false) the report has success:false.
C21_EchoOutputVerbatim ==
    Forwarded
        => /\ (~Failing(ForwardReply) /\ ForwardReply.output # NULL)
                 => Report.success /\ Report.output = ForwardReply.output
           /\ Failing(ForwardReply) => ~Report.success

\* the callback of exec has been called for the system command at hand
CalledBack == execution # NULL /\ Execution1.callback # NULL

Callback == TheOf(Execution1.callback)

\* C22: for a system command that succeeds, the output reported is the trimmed
\* standard output if standard output is not empty, else the trimmed standard error
\* if that is not empty, else 'Command completed successfully'; `echo hello` is
\* reported with success:true and output hello.
C22_SystemOutputPreference ==
    (CalledBack /\ Callback.error = NULL)
        => /\ Report.success
           /\ Report.output =
                  Some(IF Callback.stdout # EMPTY THEN Trim(Callback.stdout)
                       ELSE IF Callback.stderr # EMPTY THEN Trim(Callback.stderr)
                       ELSE <<"Command completed successfully">>)
           /\ Execution1.fullCommand = Some(<<"echo", " ", "hello">>)
                 => Report.output = Some(<<"hello">>)

C22_Witness ==
    /\ CalledBack
    /\ Execution1.fullCommand = Some(<<"echo", " ", "hello">>)
    /\ Execution1.st = "done"
    /\ Report.success
    /\ Report.output = Some(<<"hello">>)

\* a batch is being drained: some command of a fetched batch is not done
Draining(k) == k \in DOMAIN ticks /\ ticks[k].pc = "draining"

\* C23: a poll timer that fires while the listener is active and the batch of an
\* earlier tick is still being drained issues its fetch, and the earlier tick is
\* left as it was: a batch draining with a new fetch in flight is reachable.
C23_TicksNotSerialized ==
    [][(isActive /\ Len(ticks') > Len(ticks) /\ \E k \in DOMAIN ticks : Draining(k))
          => /\ ticks'[Len(ticks')].pc = "fetching"
             /\ sent'["GET remote-cli"] = sent["GET remote-cli"] + 1
             /\ \A k \in DOMAIN ticks : ticks'[k] = ticks[k]
      ]_vars

C23_Witness ==
    /\ isActive
    /\ \E k, l \in DOMAIN ticks :
          /\ k < l
          /\ Draining(k)
          /\ \E n \in DOMAIN ticks[k].cmds : ticks[k].cmds[n].st = "executing"
          /\ ticks[l].pc = "fetching"

\* C24: the executor of a Command Request is the internal one if its command text
\* begins with the sigil and the system one otherwise, whatever its type field says.
C24_DispatchBySigilOnly ==
    execution # NULL
        => Execution1.via = IF Head(Request.command) = ":" THEN "echo" ELSE "system"

C24_Witness ==
    /\ execution # NULL
    /\ Request.command = <<":", "help">>
    /\ Request.type = "system"
    /\ Execution1.via = "echo"
    /\ Execution1.forwarded = Some([command |-> <<":", "help">>, args |-> <<>>])

\* the elements of list a are found in list f, in order
RECURSIVE InOrderIn(_, _)
InOrderIn(a, f) ==
    IF a = <<>> THEN TRUE
    ELSE IF f = <<>> THEN FALSE
    ELSE IF Head(a) = Head(f) THEN InOrderIn(Tail(a), Tail(f))
    ELSE InOrderIn(a, Tail(f))

\* C29: the args of the body forwarded for an internal Command Request hold every
\* element of the request's args, in order.
C29_RequestArgsForwarded ==
    (execution # NULL /\ Execution1.forwarded # NULL)
        => InOrderIn(ArgsOf(Request), TheOf(Execution1.forwarded).args)

\* the listener has begun stopping: stop() has been called
BegunStopping == stops # <<>>

\* C25: a listener that has begun stopping is never active again, whatever start()
\* and stop() calls are made and however they interleave.
C25_LifecycleMovesForward == BegunStopping => ~isActive

\* the step is start() receiving the reply to its registration request
RegistrationSettles ==
    \E i \in DOMAIN starts : starts[i].pc = "registering" /\ starts'[i].pc # "registering"

\* C26: every step that is given a failure (of registration, heartbeat, fetch,
\* command execution, result report or deregistration; no reply, an error status or
\* success:false) prints an error on the console, and if it is not the failure of
\* a registration it leaves the listener as active as it was, with its timers.
C26_EveryErrorVisible ==
    [][input' = "failure"
          => /\ console' # {}
             /\ ~RegistrationSettles => NotFatal
      ]_vars

\* C27: however many signals arrive before the process ends, stop() of the handler
\* is called once and one deregistration request is sent.
C27_SignalsHandledOnce ==
    shutdowns # <<>> => Len(stops) = 1 /\ sent["DELETE cli-session"] = 1

\* the timers of a kind that are scheduled
Scheduled(kind) == {t \in timers : t[1] = kind}

\* C28: at most one poll timer and at most one heartbeat timer is scheduled at any
\* time, and once the listener has been stopped no timer that start() created
\* (poll, heartbeat, status display) is scheduled.
C28_TimersDoNotLeak ==
    /\ Cardinality(Scheduled("poll")) <= 1
    /\ Cardinality(Scheduled("heartbeat")) <= 1
    /\ AlreadyStopped => timers = {}

\* C30: the output reported for a system command that succeeds is never the empty
\* text, whatever standard output and standard error were captured.
C30_SystemOutputNeverEmpty ==
    (CalledBack /\ Callback.error = NULL)
        => Report.output \notin {NULL, Some(EMPTY)}

====
